---- MODULE Spec2Model ----
(***************************************************************************)
(* A model of python-fluctmatch: the trajectory statistics                 *)
(* (AverageStructure, BondStats), the splittraj command and                *)
(* create_thermo_tables, each with the process pool it dispatches to.      *)
(*                                                                         *)
(* Floating point values are modelled in fixed point: a length or a        *)
(* position is an integer number of model units, and a statistic of them   *)
(* is an integer number of 1/Scale units, rounded down.                    *)
(***************************************************************************)
EXTENDS Integers, Sequences, FiniteSets, TLC

VARIABLES
    mode,        \* which entry point of the package this behaviour runs
    \* ---- trajectory analysis (fluctmatch/fluctmatch/utils.py) ----
    trajectory,  \* the frames of universe.trajectory, in order
    ts,          \* index of the frame the reader currently holds (0: none read)
    analysis,    \* the analysis object: its class, _func and position in run()
    result,      \* self.result of the analysis object
    \* ---- a command and its process pool ----
    args,        \* the command's arguments as the caller gave them
    onPath,      \* the external binaries mdutil.which finds
    nproc,       \* os.cpu_count(): the number of worker processes of mp.Pool()
    pc,          \* position of the command's main process
    logfile,     \* the splittraj log file
    pool,        \* the mp.Pool object: "none", "closed" (created, closed), "joined"
    items,       \* the work items given to map_async, in order
    chunks,      \* the tasks map_async put on the queue: chunks of item indices
    taken,       \* how many chunks the workers have taken off the queue
    workers,     \* per worker: the chunk it holds and its position in it
    status,      \* per work item: how its call ended
    runs,        \* per work item: how many times the worker function ran on it
    effects,     \* what the worker calls did to the file system and processes
    \* ---- create_thermo_tables (analysis/thermodynamics.py) ----
    results,     \* per work item: the (window, table) its calculation returned
    entropy,     \* the merged entropy table
    enthalpy,    \* the merged enthalpy table
    heat,        \* the merged heat capacity table
    gibbs,       \* the Gibbs table of the last merge step
    files,       \* the four output files
    merged,      \* how many results the merge loop has processed
    \* ---- table_convert, diff and write_charmm_files ----
    input,       \* what the operation reads: topologies, tables, options
    output       \* the files the operation has written, in the order written

statsVars == <<trajectory, ts, analysis, result>>
poolVars == <<pool, items, chunks, taken, workers, status, runs>>
cmdVars == <<args, onPath, nproc, pc, logfile, poolVars, effects>>
thermoVars == <<results, entropy, enthalpy, heat, gibbs, files, merged>>
ioVars == <<input, output>>
vars == <<mode, statsVars, cmdVars, thermoVars, ioVars>>

\* --------------------------------------------------------------------------
\* Bounds
\* --------------------------------------------------------------------------
MaxFrames == 3   \* longest trajectory analysed
Scale == 10      \* fixed-point resolution of a statistic: 1/Scale model units
MaxStart == 3    \* largest -b given to splittraj
MaxStop == 6     \* largest -e given to splittraj
MaxWindow == 4   \* largest -w given to splittraj
MaxProcs == 2    \* largest number of pool processes
MaxRows == 2     \* most rows of a parameter table

\* --------------------------------------------------------------------------
\* Arithmetic helpers
\* --------------------------------------------------------------------------
RECURSIVE SumSeq(_)
SumSeq(s) == IF s = <<>> THEN 0 ELSE Head(s) + SumSeq(Tail(s))

RECURSIVE SqrtSearch(_, _, _)
\* the largest r in lo..hi with r * r <= n (lo * lo <= n is given)
SqrtSearch(n, lo, hi) ==
    IF lo >= hi THEN lo
    ELSE LET mid == (lo + hi + 1) \div 2
         IN  IF mid * mid <= n THEN SqrtSearch(n, mid, hi)
             ELSE SqrtSearch(n, lo, mid - 1)

ISqrt(n) == SqrtSearch(n, 0, n)

\* --------------------------------------------------------------------------
\* The universe: atoms, bonds and the conformations a frame can hold
\* --------------------------------------------------------------------------
AtomNames == <<"N", "CA", "C">>
Atoms == 1..Len(AtomNames)
Axes == 1..3
\* universe.bonds, in bond order: (atom1, atom2)
Bonds == <<<<1, 2>>, <<2, 3>>>>

\* positions of the atoms in a frame; every bond length below is an integer
Conformations ==
    { <<<<0, 0, 0>>, <<3, 4, 0>>, <<3, 4, 12>>>>,
      <<<<0, 0, 0>>, <<0, 0, 3>>, <<4, 0, 3>>>>,
      <<<<1, 2, 2>>, <<7, 10, 2>>, <<7, 10, 3>>>>,
      <<<<2, 0, 0>>, <<2, 0, 8>>, <<2, 6, 8>>>> }

Trajectories == UNION { [1..n -> Conformations] : n \in 1..MaxFrames }

\* self._ag.positions: a copy of the current frame's positions
Positions(frame) == [a \in Atoms |-> frame[a]]

\* the distance between two positions (MDAnalysis' bond length)
Dist(p, q) ==
    ISqrt(SumSeq([x \in Axes |-> (p[x] - q[x]) * (p[x] - q[x])]))

\* self._ag.bonds.bonds(): the length of every bond in the current frame
BondLengths(frame) ==
    [b \in 1..Len(Bonds) |-> Dist(frame[Bonds[b][1]], frame[Bonds[b][2]])]

\* --------------------------------------------------------------------------
\* numpy reductions over the list of per-frame arrays (axis=0)
\* --------------------------------------------------------------------------
\* np.mean of a sequence of numbers, in 1/Scale units
\* variant: the sum divided by one more than the number of frames
NpMeanBroken(xs) == (Scale * SumSeq(xs)) \div (Len(xs) + 1)
NpMean(xs) == (Scale * SumSeq(xs)) \div Len(xs)

\* np.std of a sequence of numbers (population standard deviation, ddof=0),
\* in 1/Scale units
NpStd(xs) ==
    LET n == Len(xs)
        sq == SumSeq([i \in 1..n |-> xs[i] * xs[i]])
        s == SumSeq(xs)
    IN  ISqrt((Scale * Scale * (n * sq - s * s)) \div (n * n))

Reduce(f, xs) == IF f = "mean" THEN NpMean(xs) ELSE NpStd(xs)

\* column k of a list of per-frame arrays: the values of entry k over the frames
Column(frames, k) == [i \in 1..Len(frames) |-> frames[i][k]]

\* --------------------------------------------------------------------------
\* AverageStructure and BondStats (MDAnalysis AnalysisBase subclasses)
\* --------------------------------------------------------------------------
NoArg == "<not given>"
\* the default of BondStats.__init__'s func parameter
DefaultFunc == "mean"
\* the func values a caller may pass; "median" stands for any other value
FuncValues == {"mean", "std", "both", "median"}

\* BondStats.__init__: the reductions selected by func, or AttributeError
\* variant: an unknown func falls back to the mean instead of raising
BondStatsFuncLenient(func) ==
    IF func = "std" THEN [raised |-> FALSE, func |-> <<"std">>]
    ELSE IF func = "both" THEN [raised |-> FALSE, func |-> <<"mean", "std">>]
    ELSE [raised |-> FALSE, func |-> <<"mean">>]
\* variant: "both" yields the standard deviation before the mean
BondStatsFuncSwapped(func) ==
    IF func = "mean" THEN [raised |-> FALSE, func |-> <<"mean">>]
    ELSE IF func = "std" THEN [raised |-> FALSE, func |-> <<"std">>]
    ELSE IF func = "both" THEN [raised |-> FALSE, func |-> <<"std", "mean">>]
    ELSE [raised |-> TRUE, func |-> <<>>]
BondStatsFunc(func) ==
    IF func = "mean" THEN [raised |-> FALSE, func |-> <<"mean">>]
    ELSE IF func = "std" THEN [raised |-> FALSE, func |-> <<"std">>]
    ELSE IF func = "both" THEN [raised |-> FALSE, func |-> <<"mean", "std">>]
    ELSE [raised |-> TRUE, func |-> <<>>]

NoAnalysis == [cls |-> "none", arg |-> NoArg, func |-> <<>>, pc |-> "none"]

\* AverageStructure(atomgroup)
AverageStructureInit ==
    /\ mode = "stats"
    /\ analysis.cls = "none"
    /\ analysis' = [cls |-> "AverageStructure", arg |-> NoArg, func |-> <<>>,
                    pc |-> "constructed"]
    /\ UNCHANGED <<mode, ioVars, trajectory, ts, result, cmdVars, thermoVars>>

\* BondStats(atomgroup) and BondStats(atomgroup, func=given)
BondStatsInit ==
    /\ mode = "stats"
    /\ analysis.cls = "none"
    /\ \E given \in {NoArg} \cup FuncValues :
          LET func == IF given = NoArg THEN DefaultFunc ELSE given
              sel == BondStatsFunc(func)
          IN  analysis' = [cls |-> "BondStats", arg |-> given,
                           func |-> sel.func,
                           pc |-> IF sel.raised THEN "AttributeError"
                                  ELSE "constructed"]
    /\ UNCHANGED <<mode, ioVars, trajectory, ts, result, cmdVars, thermoVars>>

\* run(): _prepare of either class
Prepare ==
    /\ mode = "stats"
    /\ analysis.pc = "constructed"
    /\ result' = <<>>
    /\ analysis' = [analysis EXCEPT !.pc = "running"]
    /\ UNCHANGED <<mode, ioVars, trajectory, ts, cmdVars, thermoVars>>

\* what _single_frame appends for the frame the reader holds
FrameEntry(cls, frame) ==
    IF cls = "AverageStructure" THEN Positions(frame) ELSE BondLengths(frame)

\* run(): the reader moves to the next frame and _single_frame is called
SingleFrame ==
    /\ mode = "stats"
    /\ analysis.pc = "running"
    /\ ts < Len(trajectory)
    /\ ts' = ts + 1
    /\ result' = Append(result, FrameEntry(analysis.cls, trajectory[ts + 1]))
    /\ UNCHANGED <<mode, ioVars, trajectory, analysis, cmdVars, thermoVars>>

\* AverageStructure._conclude: np.mean(self.result, axis=0)
AverageStructureConclude(frames) ==
    [a \in Atoms |->
        [x \in Axes |-> NpMean([i \in 1..Len(frames) |-> frames[i][a][x]])]]

\* BondStats._conclude: one table (I, J, r_IJ) per selected reduction
BondStatsConclude(func, frames) ==
    [t \in 1..Len(func) |->
        [b \in 1..Len(Bonds) |->
            [I |-> AtomNames[Bonds[b][1]],
             J |-> AtomNames[Bonds[b][2]],
             r_IJ |-> Reduce(func[t], Column(frames, b))]]]

\* run(): _conclude of either class, after the last frame
Conclude ==
    /\ mode = "stats"
    /\ analysis.pc = "running"
    /\ ts = Len(trajectory)
    /\ result' = IF analysis.cls = "AverageStructure"
                 THEN AverageStructureConclude(result)
                 ELSE BondStatsConclude(analysis.func, result)
    /\ analysis' = [analysis EXCEPT !.pc = "done"]
    /\ UNCHANGED <<mode, ioVars, trajectory, ts, cmdVars, thermoVars>>


\* --------------------------------------------------------------------------
\* multiprocessing.Pool as the commands use it: map_async, close, join
\* --------------------------------------------------------------------------
\* map_async's default chunksize for n items on procs processes
ChunkSize(n, procs) ==
    IF n = 0 THEN 0
    ELSE IF n % (procs * 4) # 0 THEN n \div (procs * 4) + 1
    ELSE n \div (procs * 4)

\* the tasks map_async queues: consecutive chunks of the item indices 1..n,
\* every item in one chunk
Chunks(n, size) ==
    IF n = 0 THEN <<>>
    ELSE [c \in 1..((n + size - 1) \div size) |->
            [k \in 1..(IF c * size <= n THEN size ELSE n - (c - 1) * size) |->
                (c - 1) * size + k]]

Idle == [chunk |-> 0, pos |-> 0]

\* the state of a pool that was never created
NoPool ==
    /\ pool = "none"
    /\ items = <<>>
    /\ chunks = <<>>
    /\ taken = 0
    /\ workers = <<>>
    /\ status = <<>>
    /\ runs = <<>>

\* pool = mp.Pool(); pool.map_async(func, work); pool.close()
Dispatch(work) ==
    /\ pool' = "closed"
    /\ items' = work
    /\ chunks' = Chunks(Len(work), ChunkSize(Len(work), nproc))
    /\ taken' = 0
    /\ workers' = [w \in 1..nproc |-> Idle]
    /\ status' = [i \in 1..Len(work) |-> "pending"]
    /\ runs' = [i \in 1..Len(work) |-> 0]

\* every queued task has been run to its end
AllTasksDone ==
    /\ taken = Len(chunks)
    /\ \A w \in DOMAIN workers : workers[w] = Idle

Failures == {"OSError", "CalledProcessError"}

\* the position worker w works at next: in the chunk it holds, or at the
\* start of the next chunk of the queue
Current(w) ==
    IF workers[w] = Idle THEN [chunk |-> taken + 1, pos |-> 1] ELSE workers[w]

\* mapstar in a worker: the worker function is called on the next item of the
\* chunk and ends with outcome st; an exception ends the whole chunk
\* variant: a failed item is run once more instead of ending its chunk
RunItemRetry(w, st) ==
    LET cur == Current(w)
        chunk == chunks[cur.chunk]
        i == chunk[cur.pos]
        ends == st \in Failures \/ cur.pos = Len(chunk)
    IN  /\ status' = [status EXCEPT ![i] = st]
        /\ runs' = [runs EXCEPT ![i] = @ + 1]
        /\ workers' = [workers EXCEPT ![w] =
                          IF st \in Failures /\ runs[i] = 0 THEN cur
                          ELSE IF ends THEN Idle
                          ELSE [chunk |-> cur.chunk, pos |-> cur.pos + 1]]
        /\ taken' = IF workers[w] = Idle THEN taken + 1 ELSE taken
        /\ UNCHANGED <<pool, items, chunks>>
RunItem(w, st) ==
    LET cur == Current(w)
        chunk == chunks[cur.chunk]
        i == chunk[cur.pos]
        ends == st \in Failures \/ cur.pos = Len(chunk)
    IN  /\ status' = [j \in DOMAIN status |->
                        IF j = i THEN st
                        ELSE IF st \in Failures
                                /\ \E k \in (cur.pos + 1)..Len(chunk) : chunk[k] = j
                             THEN "skipped"
                        ELSE status[j]]
        /\ runs' = [runs EXCEPT ![i] = @ + 1]
        /\ workers' = [workers EXCEPT ![w] =
                          IF ends THEN Idle
                          ELSE [chunk |-> cur.chunk, pos |-> cur.pos + 1]]
        /\ taken' = IF workers[w] = Idle THEN taken + 1 ELSE taken
        /\ UNCHANGED <<pool, items, chunks>>

\* worker w can run an item: it holds a chunk or the queue holds one
CanRun(w) ==
    /\ pool = "closed"
    /\ w \in DOMAIN workers
    /\ workers[w] # Idle \/ taken < Len(chunks)

\* --------------------------------------------------------------------------
\* The splittraj command (commands/cmd_splittraj.py)
\* --------------------------------------------------------------------------
Programs == {"GMX", "CHARMM"}
Binaries == {"gmx", "charmm"}
\* the binary split_gmx / split_charmm needs
Binary(program) == IF program = "GMX" THEN "gmx" ELSE "charmm"

\* click.IntRange(lo, None, clamp=True)
IntRange(v, lo) == IF v < lo THEN lo ELSE v

Start == IntRange(args.start, 1)
Stop == IntRange(args.stop, 1)
WindowSize == IntRange(args.window_size, 2)

\* range(a, b, step) for step > 0
PyRange(a, b, step) ==
    IF b <= a THEN <<>>
    ELSE [k \in 1..((b - a + step - 1) \div step) |-> a + (k - 1) * step]

\* zip of two sequences
Zip(xs, ys) ==
    [k \in 1..(IF Len(xs) <= Len(ys) THEN Len(xs) ELSE Len(ys)) |-> <<xs[k], ys[k]>>]

HalfSize(window_size) == window_size \div 2
Beg(start, window_size) ==
    IF start >= window_size THEN start - HalfSize(window_size) ELSE start

\* the last frames of the windows: range(beg + window_size - 1, stop + 1, half_size)
\* variant: the last frames taken one frame later
LastsLong(beg, stop, window_size) ==
    PyRange(beg + window_size, stop + 2, HalfSize(window_size))
Lasts(beg, stop, window_size) ==
    PyRange(beg + window_size - 1, stop + 1, HalfSize(window_size))

\* values: (subdirectory, first frame, last frame) of every window
Values(start, stop, window_size) ==
    LET half_size == HalfSize(window_size)
        beg == Beg(start, window_size)
        pairs == Zip(PyRange(beg, stop + 1, half_size),
                     Lasts(beg, stop, window_size))
    IN  [k \in 1..Len(pairs) |->
            [subdir |-> (pairs[k][2] \div half_size) - 1,
             first |-> pairs[k][1],
             last |-> pairs[k][2]]]

\* cli up to pool.join(): configure logging, check the binary, compute the
\* windows, create the pool, dispatch the windows and close the pool
\* variant: the pool is created and the windows dispatched before the binary is checked
SplittrajCliPoolFirst ==
    /\ mode = "splittraj"
    /\ pc = "start"
    /\ Dispatch(Values(Start, Stop, WindowSize))
    /\ IF Binary(args.program) \notin onPath
       THEN logfile' = "error" /\ pc' = "OSError"
       ELSE logfile' = "opened" /\ pc' = "joining"
    /\ UNCHANGED <<mode, ioVars, statsVars, args, onPath, nproc, effects, thermoVars>>
SplittrajCli ==
    /\ mode = "splittraj"
    /\ pc = "start"
    /\ IF Binary(args.program) \notin onPath
       THEN /\ logfile' = "error"
            /\ pc' = "OSError"
            /\ UNCHANGED poolVars
       ELSE /\ logfile' = "opened"
            /\ pc' = "joining"
            /\ Dispatch(Values(Start, Stop, WindowSize))
    /\ UNCHANGED <<mode, ioVars, statsVars, args, onPath, nproc, effects, thermoVars>>

\* the -n option: no index file, or one
Indexes == { <<>>, <<"index.ndx">> }

\* path.join(data_dir, "{}".format(subdir)), and a file in it
Subdir(info) == "data/" \o ToString(info.subdir)
InSubdir(info, file) == Subdir(info) \o "/" \o file

\* split_gmx: the command list, with the default file names
GmxCommand(info, index) ==
    IF index # <<>>
    THEN << "gmx", "-s", "md.tpr", "-f", "md.xtc", "-n", index[1],
            "-o", InSubdir(info, "aa.xtc"),
            "-b", ToString(info.first), "-e", ToString(info.last) >>
    ELSE << "gmx", "trjconv", "-s", "md.tpr", "-f", "md.xtc",
            "-o", InSubdir(info, "aa.xtc"),
            "-b", ToString(info.first), "-e", ToString(info.last) >>

\* split_charmm: the command list
CharmmCommand(info) ==
    << "charmm", "-i", InSubdir(info, "split.inp"),
       "-o", InSubdir(info, "split.log") >>

\* what split_gmx / split_charmm do for work item i once the binary was found:
\* create the window subdirectory, write their files, launch the command
SplitEffects(program, i) ==
    { [kind |-> "makedirs", item |-> i, what |-> "subdir", argv |-> <<>>],
      [kind |-> "exec", item |-> i, what |-> Binary(program),
       argv |-> IF program = "GMX" THEN GmxCommand(items[i], args.index)
                ELSE CharmmCommand(items[i])] }
    \cup (IF program = "GMX"
          THEN { [kind |-> "write", item |-> i, what |-> "tempfile", argv |-> <<>>],
                 [kind |-> "write", item |-> i, what |-> "split.log", argv |-> <<>>] }
          ELSE { [kind |-> "write", item |-> i, what |-> "split.inp", argv |-> <<>>] })

\* split_gmx(info) / split_charmm(info): the ways a call can end, each with
\* what it did before
SplitCall(program, i, path) ==
    IF Binary(program) \notin path
    THEN { [status |-> "OSError", effects |-> {}] }
    ELSE { [status |-> st, effects |-> SplitEffects(program, i)] :
              st \in {"ok", "CalledProcessError"} }

\* a pool worker calls split_gmx / split_charmm on its next window
SplitWorker ==
    /\ mode = "splittraj"
    /\ \E w \in DOMAIN workers :
          /\ CanRun(w)
          /\ \E out \in SplitCall(args.program, chunks[Current(w).chunk][Current(w).pos],
                                  onPath) :
                /\ RunItem(w, out.status)
                /\ effects' = effects \cup out.effects
    /\ UNCHANGED <<mode, ioVars, statsVars, args, onPath, nproc, pc, logfile, thermoVars>>

\* the environment: a binary is removed from the path while the workers run
BinaryRemoved ==
    /\ mode = "splittraj"
    /\ pc = "joining"
    /\ onPath = Binaries
    /\ onPath' = onPath \ {Binary(args.program)}
    /\ UNCHANGED <<mode, ioVars, statsVars, args, nproc, pc, logfile, poolVars, effects,
                   thermoVars>>

\* pool.join() returns, and with it the command; the AsyncResult is dropped
\* variant: the command returns without waiting for the workers
SplittrajJoinEarly ==
    /\ mode = "splittraj"
    /\ pc = "joining"
    /\ pool' = "joined"
    /\ pc' = "returned"
    /\ UNCHANGED <<mode, ioVars, statsVars, args, onPath, nproc, logfile, items, chunks,
                   taken, workers, status, runs, effects, thermoVars>>
\* variant: the AsyncResult is read with get(), which re-raises a failure
SplittrajJoinGet ==
    /\ mode = "splittraj"
    /\ pc = "joining"
    /\ AllTasksDone
    /\ pool' = "joined"
    /\ pc' = IF \E i \in DOMAIN status : status[i] \in Failures
             THEN "raised" ELSE "returned"
    /\ UNCHANGED <<mode, ioVars, statsVars, args, onPath, nproc, logfile, items, chunks,
                   taken, workers, status, runs, effects, thermoVars>>
SplittrajJoin ==
    /\ mode = "splittraj"
    /\ pc = "joining"
    /\ AllTasksDone
    /\ pool' = "joined"
    /\ pc' = "returned"
    /\ UNCHANGED <<mode, ioVars, statsVars, args, onPath, nproc, logfile, items, chunks,
                   taken, workers, status, runs, effects, thermoVars>>

\* --------------------------------------------------------------------------
\* create_thermo_tables (analysis/thermodynamics.py)
\* --------------------------------------------------------------------------
\* the subdirectories of datadir: window numbers written in decimal digits,
\* as splittraj names them
SubdirNames == { <<1>>, <<2>>, <<9>>, <<1, 0>>, <<1, 2>> }

\* every order in which glob can list a set of subdirectories
Listings ==
    UNION { { l \in [1..n -> SubdirNames] :
                \A i, j \in 1..n : i # j => l[i] # l[j] } :
            n \in 0..Cardinality(SubdirNames) }

RECURSIVE ParseInt(_)
\* int() of a string of decimal digits
ParseInt(digits) ==
    IF digits = <<>> THEN 0
    ELSE 10 * ParseInt(SubSeq(digits, 1, Len(digits) - 1)) + digits[Len(digits)]

\* the rows of a thermodynamics table: (segidI, resI)
Residues == { <<"PROA", 1>>, <<"PROA", 2>> }

\* values are in units of 10^-5; the file holds them to 4 decimals
DefaultTemperature == 300
Temperatures == { <<>>, <<310>> }

\* kwargs.get("temperature", 300.)
GetTemperature(kwargs) ==
    IF kwargs.temperature = <<>> THEN DefaultTemperature ELSE kwargs.temperature[1]

\* the table calculate_thermo reads from the thermo data file of a window
ThermoData(window) ==
    [r \in Residues |->
        [Entropy |-> 1111 * ParseInt(window) + 7 * r[2],
         Enthalpy |-> 250000 + 13 * ParseInt(window) + r[2],
         Heatcap |-> 30004 * r[2] + ParseInt(window)]]

\* calculate_thermo(subdir): returns (window, table), or the calculation fails
CalculateThermo(subdir) ==
    { [status |-> "ok", returned |-> <<subdir, ThermoData(subdir)>>],
      [status |-> "CalledProcessError", returned |-> <<>>] }

\* pd.concat([table, pd.DataFrame(result[name], columns=window)], axis=1)
\* followed by columns.astype(np.int): a new last column, its label an integer
ConcatColumn(table, window, data, name) ==
    Append(table, [label |-> ParseInt(window),
                   col |-> [r \in Residues |-> data[r][name]]])

\* table[np.sort(table.columns)]: the columns in ascending order of their
\* labels (the labels of a merged table are distinct)
\* variant: the columns left in the order they were appended
SortColumnsUnsorted(table) == table
SortColumns(table) ==
    LET n == Len(table)
        rank(k) == Cardinality({ j \in 1..n :
                                    \/ table[j].label < table[k].label
                                    \/ table[j].label = table[k].label /\ j < k }) + 1
    IN  [p \in 1..n |-> table[CHOOSE k \in 1..n : rank(k) = p]]

\* enthalpy - (temperature * entropy), aligned on the column labels
\* variant: the entropy term added instead of subtracted
GibbsPlus(h, s, temperature) ==
    [k \in 1..Len(h) |->
        LET e == CHOOSE j \in 1..Len(s) : s[j].label = h[k].label
        IN  [label |-> h[k].label,
             col |-> [r \in Residues |-> h[k].col[r] + temperature * s[e].col[r]]]]
Gibbs(h, s, temperature) ==
    [k \in 1..Len(h) |->
        LET e == CHOOSE j \in 1..Len(s) : s[j].label = h[k].label
        IN  [label |-> h[k].label,
             col |-> [r \in Residues |-> h[k].col[r] - temperature * s[e].col[r]]]]

\* "%.4f" of a value in units of 10^-5: the nearest multiple of 10^-4
Format4(v) == IF v >= 0 THEN (v + 5) \div 10 ELSE -((-v + 5) \div 10)

\* table.to_csv(float_format="%.4f") written to a file opened with mode "wb"
ToCsv(table) ==
    [written |-> TRUE,
     table |-> [k \in 1..Len(table) |->
                   [label |-> table[k].label,
                    col |-> [r \in Residues |-> Format4(table[k].col[r])]]]]

NoFile == [written |-> FALSE, table |-> <<>>]
FileNames == {"entropy.txt", "enthalpy.txt", "heat_capacity.txt", "gibbs.txt"}

\* create_thermo_tables up to pool.join(): list the subdirectories, create
\* the pool, dispatch them and close the pool
ThermoDispatch ==
    /\ mode = "thermo"
    /\ pc = "start"
    /\ Dispatch(args.subdirs)
    /\ results' = [i \in 1..Len(args.subdirs) |-> <<>>]
    /\ pc' = "joining"
    /\ UNCHANGED <<mode, ioVars, statsVars, args, onPath, nproc, logfile, effects,
                   entropy, enthalpy, heat, gibbs, files, merged>>

\* a pool worker calls calculate_thermo on its next subdirectory
ThermoWorker ==
    /\ mode = "thermo"
    /\ \E w \in DOMAIN workers :
          /\ CanRun(w)
          /\ LET i == chunks[Current(w).chunk][Current(w).pos]
             IN  \E out \in CalculateThermo(items[i]) :
                    /\ RunItem(w, out.status)
                    /\ results' = [results EXCEPT ![i] = out.returned]
    /\ UNCHANGED <<mode, ioVars, statsVars, args, onPath, nproc, pc, logfile, effects,
                   entropy, enthalpy, heat, gibbs, files, merged>>

\* pool.join(); results.wait(); results.get(): re-raises the exception of a
\* failed task, otherwise the merge loop starts over the results in the
\* order of the subdirectories
\* variant: the four files are opened for writing before the results are read
ThermoJoinFilesFirst ==
    /\ mode = "thermo"
    /\ pc = "joining"
    /\ AllTasksDone
    /\ pool' = "joined"
    /\ files' = [f \in FileNames |-> ToCsv(<<>>)]
    /\ pc' = IF \E i \in DOMAIN status : status[i] # "ok" THEN "raised"
             ELSE IF Len(items) = 0 THEN "returned"
             ELSE "merging"
    /\ UNCHANGED <<mode, ioVars, statsVars, args, onPath, nproc, logfile, items, chunks,
                   taken, workers, status, runs, effects, results, entropy,
                   enthalpy, heat, gibbs, merged>>
ThermoJoin ==
    /\ mode = "thermo"
    /\ pc = "joining"
    /\ AllTasksDone
    /\ pool' = "joined"
    /\ pc' = IF \E i \in DOMAIN status : status[i] # "ok" THEN "raised"
             ELSE IF Len(items) = 0 THEN "returned"
             ELSE "merging"
    /\ UNCHANGED <<mode, ioVars, statsVars, args, onPath, nproc, logfile, items, chunks,
                   taken, workers, status, runs, effects, thermoVars>>

\* one pass of the merge loop: add the window's columns, sort the columns,
\* compute the Gibbs table and write the four files
MergeStep ==
    /\ mode = "thermo"
    /\ pc = "merging"
    /\ merged < Len(items)
    /\ LET window == results[merged + 1][1]
           table == results[merged + 1][2]
       IN  /\ entropy' = SortColumns(ConcatColumn(entropy, window, table, "Entropy"))
           /\ enthalpy' = SortColumns(ConcatColumn(enthalpy, window, table, "Enthalpy"))
           /\ heat' = SortColumns(ConcatColumn(heat, window, table, "Heatcap"))
    /\ gibbs' = Gibbs(enthalpy', entropy', GetTemperature(args))
    /\ files' = [f \in FileNames |->
                    IF f = "entropy.txt" THEN ToCsv(entropy')
                    ELSE IF f = "enthalpy.txt" THEN ToCsv(enthalpy')
                    ELSE IF f = "heat_capacity.txt" THEN ToCsv(heat')
                    ELSE ToCsv(gibbs')]
    /\ merged' = merged + 1
    /\ pc' = IF merged + 1 = Len(items) THEN "returned" ELSE "merging"
    /\ UNCHANGED <<mode, ioVars, statsVars, args, onPath, nproc, logfile, poolVars,
                   effects, results>>

\* --------------------------------------------------------------------------
\* The table_convert command (commands/cmd_table_convert.py)
\* --------------------------------------------------------------------------
\* cg.atoms.names: the atom names of the first topology, by atom index
Top1NameLists == { <<"N", "CA", "C">>, <<"CA", "CA", "N">> }
\* fluctmatch.atoms.names: the bead names of the second topology, by atom index
Top2NameLists ==
    { <<"B1", "B2", "B3">>, <<"B2", "B1", "B3">>, <<"B3", "B1", "B2">>,
      <<"B1", "B1", "B2">> }
BeadNames == {"B1", "B2", "B3"}

\* cg.residues: (segid, resnum, resname)
Top1Residues == << <<"PROA", 1, "ALA">>, <<"PROA", 2, "GLY">> >>

\* the rows a table can hold; the constant of row i is in units of 10^-5
TableRow(i, bI, bJ, rI, rJ) ==
    [segidI |-> "PROA", resI |-> rI, I |-> bI,
     segidJ |-> "PROA", resJ |-> rJ, J |-> bJ, value |-> 12340 + 6 * i]
Tables ==
    UNION { { t \in [1..n -> [I : BeadNames, J : BeadNames,
                              res : {<<1, 1>>, <<1, 2>>, <<2, 2>>}]] : TRUE } :
            n \in 1..MaxRows }
ReadTable(t) ==
    [i \in 1..Len(t) |-> TableRow(i, t[i].I, t[i].J, t[i].res[1], t[i].res[2])]

\* dict(zip(keys, vals)): a later pair replaces an earlier one with the same key
DictZip(keys, vals) ==
    LET n == IF Len(keys) <= Len(vals) THEN Len(keys) ELSE Len(vals)
    IN  [k \in { keys[i] : i \in 1..n } |->
            vals[CHOOSE i \in 1..n :
                    keys[i] = k /\ \A j \in 1..n : keys[j] = k => j <= i]]

\* convert = dict(zip(fluctmatch.atoms.names, cg.atoms.names))
\* variant: the dictionary built from the first topology to the second
ConvertReversed(top1, top2) == DictZip(top1, top2)
Convert(top1, top2) == DictZip(top2, top1)

\* resnames.loc[(segid, res),]: the residue name of (segid, res) in top1
Resname(segid, res) ==
    LET i == CHOOSE i \in DOMAIN Top1Residues :
                Top1Residues[i][1] = segid /\ Top1Residues[i][2] = res
    IN  Top1Residues[i][3]

\* one row of the table with its bead names converted, its residue names
\* added and its constant formatted with "%.4f"
ConvertRow(row, convert) ==
    [segidI |-> row.segidI, resI |-> row.resI,
     resnI |-> Resname(row.segidI, row.resI), I |-> convert[row.I],
     segidJ |-> row.segidJ, resJ |-> row.resJ,
     resnJ |-> Resname(row.segidJ, row.resJ), J |-> convert[row.J],
     value |-> Format4(row.value)]

\* cli: build the dictionary, convert I and J (KeyError for a bead name the
\* second topology does not have), add resnI and resnJ, write the table
TableConvertCli ==
    /\ mode = "table_convert"
    /\ pc = "start"
    /\ LET convert == Convert(input.top1, input.top2)
           rows == input.table
       IN  IF \E i \in DOMAIN rows :
                 rows[i].I \notin DOMAIN convert \/ rows[i].J \notin DOMAIN convert
           THEN /\ pc' = "KeyError"
                /\ output' = output
           ELSE /\ pc' = "returned"
                /\ output' = Append(output,
                      [name |-> "outfile",
                       content |-> [i \in DOMAIN rows |-> ConvertRow(rows[i], convert)]])
    /\ UNCHANGED <<mode, input, statsVars, args, onPath, nproc, logfile, poolVars,
                   effects, thermoVars>>

\* --------------------------------------------------------------------------
\* The diff command (commands/cmd_diff.py)
\* --------------------------------------------------------------------------
\* A data frame is [rows, cols, val]: val[<<r, c>>] for r in rows, c in cols.
\* A cell of a result is [nan, v]: v in units of 10^-5, or NaN.
Num(x) == [nan |-> FALSE, v |-> x]
NaN == [nan |-> TRUE, v |-> 0]

\* the parameter tables a file can hold: the residues and the windows it
\* covers, and the level of its force constants
ParamTables ==
    [res : (SUBSET {1, 2, 3}) \ {{}}, cols : {{1}, {2}, {1, 2}}, base : {100, 250}]

\* ParamTable.table: the force constant of every residue pair, per window
Table(pt) ==
    LET rows == { p \in pt.res \X pt.res : p[1] <= p[2] }
    IN  [rows |-> rows, cols |-> pt.cols,
         val |-> [k \in rows \X pt.cols |->
                     pt.base + 100 * k[1][1] + 10 * k[1][2] + k[2]]]

\* ParamTable.per_residue: one row per residue, one column per window
PerResidue(pt) ==
    [rows |-> pt.res, cols |-> pt.cols,
     val |-> [k \in pt.res \X pt.cols |-> pt.base + 1000 * k[1] + 7 * k[2]]]

\* ParamTable.interactions: one row per residue pair, one column per window
Interactions(pt) ==
    LET rows == { p \in pt.res \X pt.res : p[1] < p[2] }
    IN  [rows |-> rows, cols |-> pt.cols,
         val |-> [k \in rows \X pt.cols |->
                     pt.base + 300 * k[1][1] + 20 * k[1][2] + k[2]]]

\* frame a has a value at row r, column c
HasCell(a, r, c) == r \in a.rows /\ c \in a.cols

\* a.subtract(b, fill_value=fill): the frames are aligned on the union of
\* their rows and columns; a value missing from one frame is taken as fill,
\* a value missing from both stays missing
\* variant: plain subtraction, a value missing from either frame gives NaN
SubtractNoFill(a, b, fill) ==
    LET rows == a.rows \cup b.rows
        cols == a.cols \cup b.cols
    IN  [rows |-> rows, cols |-> cols,
         val |-> [k \in rows \X cols |->
                     IF HasCell(a, k[1], k[2]) /\ HasCell(b, k[1], k[2])
                     THEN Num(a.val[k] - b.val[k])
                     ELSE NaN]]
Subtract(a, b, fill) ==
    LET rows == a.rows \cup b.rows
        cols == a.cols \cup b.cols
    IN  [rows |-> rows, cols |-> cols,
         val |-> [k \in rows \X cols |->
                     IF HasCell(a, k[1], k[2]) /\ HasCell(b, k[1], k[2])
                     THEN Num(a.val[k] - b.val[k])
                     ELSE IF HasCell(a, k[1], k[2]) THEN Num(a.val[k] - fill)
                     ELSE IF HasCell(b, k[1], k[2]) THEN Num(fill - b.val[k])
                     ELSE NaN]]

\* table_1 - table_2 (ParamTable.__sub__): the difference of the tables where
\* both have a value
TableDifference(pt1, pt2) ==
    LET a == Table(pt1)
        b == Table(pt2)
        rows == a.rows \cup b.rows
        cols == a.cols \cup b.cols
    IN  [rows |-> rows, cols |-> cols,
         val |-> [k \in rows \X cols |->
                     IF HasCell(a, k[1], k[2]) /\ HasCell(b, k[1], k[2])
                     THEN Num(a.val[k] - b.val[k])
                     ELSE NaN]]

\* frame.to_csv(float_format="%.4f"): every number to four decimals
FrameToCsv(f) ==
    [rows |-> f.rows, cols |-> f.cols,
     val |-> [k \in f.rows \X f.cols |->
                 IF f.val[k].nan THEN NaN ELSE Num(Format4(f.val[k].v))]]

\* cli: load both tables, subtract, write the three difference tables
DiffCli ==
    /\ mode = "diff"
    /\ pc = "start"
    /\ LET d_table == TableDifference(input.table1, input.table2)
           d_perres == Subtract(PerResidue(input.table1),
                                PerResidue(input.table2), 0)
           d_interactions == Subtract(Interactions(input.table1),
                                      Interactions(input.table2), 0)
       IN  output' = output \o
              << [name |-> "dcoupling.txt", content |-> FrameToCsv(d_table)],
                 [name |-> "dperres.txt", content |-> FrameToCsv(d_perres)],
                 [name |-> "dinteractions.txt",
                  content |-> FrameToCsv(d_interactions)] >>
    /\ pc' = "returned"
    /\ UNCHANGED <<mode, input, statsVars, args, onPath, nproc, logfile, poolVars,
                   effects, thermoVars>>

\* --------------------------------------------------------------------------
\* write_charmm_files (fluctmatch/utils.py)
\* --------------------------------------------------------------------------
\* filenames, for the default prefix "cg"
Filenames ==
    [psf_file |-> "cg.psf", xplor_psf_file |-> "cg.xplor.psf",
     crd_file |-> "cg.cor", stream_file |-> "cg.stream",
     topology_file |-> "cg.rtf", traj_file |-> "cg.dcd"]

\* Writer(filename).write(universe) of a topology format: the atoms, no frames
TopologyFile(name) == [name |-> name, atoms |-> AtomNames, frames |-> <<>>]

\* the positions of every frame of the trajectory, as AverageStructure.run
\* collects them
AllPositions(traj) == [i \in 1..Len(traj) |-> Positions(traj[i])]

\* the positions the coordinate file holds: the average structure when the
\* trajectory has several frames, the current frame otherwise
\* (in 1/Scale units, as the average is)
\* variant: the current frame in either case
CoordinatesCurrentFrame(traj, t) ==
    [a \in Atoms |-> [x \in Axes |-> Scale * Positions(traj[t])[a][x]]]
Coordinates(traj, t) ==
    IF Len(traj) > 1
    THEN AverageStructureConclude(AllPositions(traj))
    ELSE [a \in Atoms |-> [x \in Axes |-> Scale * Positions(traj[t])[a][x]]]

\* the "with" blocks for the RTF, stream and PSF files
WriteTopologyFiles ==
    /\ mode = "charmm"
    /\ pc = "start"
    /\ output' = output \o << TopologyFile(Filenames.topology_file),
                              TopologyFile(Filenames.stream_file),
                              TopologyFile(Filenames.psf_file) >>
    /\ pc' = IF input.write_traj THEN "open_traj" ELSE "xplor"
    /\ UNCHANGED <<mode, input, trajectory, ts, analysis, result, args, onPath,
                   nproc, logfile, poolVars, effects, thermoVars>>

\* if write_traj: the trajectory writer is opened and the reader rewound
\* variant: the reader stays on its current frame
RewindMissing ==
    /\ mode = "charmm"
    /\ pc = "open_traj"
    /\ output' = Append(output, [name |-> Filenames.traj_file, atoms |-> <<>>,
                                 frames |-> <<>>])
    /\ pc' = "write_traj"
    /\ UNCHANGED <<mode, input, trajectory, ts, analysis, result, args, onPath,
                   nproc, logfile, poolVars, effects, thermoVars>>
Rewind ==
    /\ mode = "charmm"
    /\ pc = "open_traj"
    /\ output' = Append(output, [name |-> Filenames.traj_file, atoms |-> <<>>,
                                 frames |-> <<>>])
    /\ ts' = 1
    /\ pc' = "write_traj"
    /\ UNCHANGED <<mode, input, trajectory, analysis, result, args, onPath,
                   nproc, logfile, poolVars, effects, thermoVars>>

\* for ts in universe.trajectory: trj.write(ts); the reader is rewound when
\* the iteration ends
WriteFrame ==
    /\ mode = "charmm"
    /\ pc = "write_traj"
    /\ output' = [output EXCEPT ![Len(output)].frames =
                     Append(@, Positions(trajectory[ts]))]
    /\ IF ts < Len(trajectory)
       THEN ts' = ts + 1 /\ pc' = pc
       ELSE ts' = 1 /\ pc' = "xplor"
    /\ UNCHANGED <<mode, input, trajectory, analysis, result, args, onPath,
                   nproc, logfile, poolVars, effects, thermoVars>>

\* the XPLOR version of the PSF
WriteXplorPsf ==
    /\ mode = "charmm"
    /\ pc = "xplor"
    /\ output' = Append(output, TopologyFile(Filenames.xplor_psf_file))
    /\ pc' = "crd"
    /\ UNCHANGED <<mode, input, trajectory, ts, analysis, result, args, onPath,
                   nproc, logfile, poolVars, effects, thermoVars>>

\* the file written under a name, if any: the latest write
Written(files_, name) ==
    LET ks == { k \in 1..Len(files_) : files_[k].name = name }
    IN  IF ks = {} THEN <<>>
        ELSE << files_[CHOOSE k \in ks : \A j \in ks : j <= k] >>

\* the coordinate file: of the average universe, which is loaded from the
\* PSF file on disk, or of the universe itself
WriteCoordinates ==
    /\ mode = "charmm"
    /\ pc = "crd"
    /\ IF Len(trajectory) > 1
       THEN LET psf == Written(output, Filenames.psf_file)
            IN  IF psf = <<>>
                THEN /\ pc' = "IOError"
                     /\ UNCHANGED <<output, ts>>
                ELSE /\ output' = Append(output,
                            [name |-> Filenames.crd_file,
                             atoms |-> psf[1].atoms,
                             frames |-> << Coordinates(trajectory, ts) >>])
                     /\ ts' = Len(trajectory)
                     /\ pc' = "returned"
       ELSE /\ output' = Append(output,
                   [name |-> Filenames.crd_file, atoms |-> AtomNames,
                    frames |-> << Coordinates(trajectory, ts) >>])
            /\ pc' = "returned"
            /\ UNCHANGED ts
    /\ UNCHANGED <<mode, input, trajectory, analysis, result, args, onPath,
                   nproc, logfile, poolVars, effects, thermoVars>>

\* --------------------------------------------------------------------------
\* Specification
\* --------------------------------------------------------------------------
StatsIdle ==
    /\ trajectory = <<>>
    /\ ts = 0
    /\ analysis = NoAnalysis
    /\ result = <<>>

NoArgs ==
    [program |-> "none", start |-> 0, stop |-> 0, window_size |-> 0, index |-> <<>>]

CmdIdle ==
    /\ args = NoArgs
    /\ onPath = {}
    /\ nproc = 0
    /\ pc = "none"
    /\ logfile = "absent"
    /\ NoPool
    /\ effects = {}

ThermoIdle ==
    /\ results = <<>>
    /\ entropy = <<>>
    /\ enthalpy = <<>>
    /\ heat = <<>>
    /\ gibbs = <<>>
    /\ files = [f \in FileNames |-> NoFile]
    /\ merged = 0

IoIdle ==
    /\ input = <<>>
    /\ output = <<>>

\* no pool command is involved: only pc is used
NoCommand ==
    /\ args = NoArgs
    /\ onPath = {}
    /\ nproc = 0
    /\ logfile = "absent"
    /\ NoPool
    /\ effects = {}

InitStats ==
    /\ mode = "stats"
    /\ IoIdle
    /\ trajectory \in Trajectories
    /\ ts = 0
    /\ analysis = NoAnalysis
    /\ result = <<>>
    /\ CmdIdle
    /\ ThermoIdle

\* create_thermo_tables is called on a data directory: any listing of its
\* subdirectories, with or without a temperature
InitThermo ==
    /\ mode = "thermo"
    /\ IoIdle
    /\ StatsIdle
    /\ args \in [subdirs : Listings, temperature : Temperatures]
    /\ onPath = {}
    /\ nproc \in 1..MaxProcs
    /\ pc = "start"
    /\ logfile = "absent"
    /\ NoPool
    /\ effects = {}
    /\ ThermoIdle

\* splittraj is invoked: any program, any -b, -e, -w (click clamps them), with
\* or without -n
InitSplittraj ==
    /\ mode = "splittraj"
    /\ IoIdle
    /\ StatsIdle
    /\ args \in [program : Programs, start : 0..MaxStart, stop : 0..MaxStop,
                  window_size : 1..MaxWindow, index : Indexes]
    /\ onPath \in SUBSET Binaries
    /\ nproc \in 1..MaxProcs
    /\ pc = "start"
    /\ logfile = "absent"
    /\ NoPool
    /\ effects = {}
    /\ ThermoIdle

\* table_convert is invoked on two topologies and a table
InitTableConvert ==
    /\ mode = "table_convert"
    /\ StatsIdle
    /\ NoCommand
    /\ pc = "start"
    /\ ThermoIdle
    /\ input \in [top1 : Top1NameLists, top2 : Top2NameLists,
                   table : { ReadTable(t) : t \in Tables }]
    /\ output = <<>>

\* diff is invoked on two table files
InitDiff ==
    /\ mode = "diff"
    /\ StatsIdle
    /\ NoCommand
    /\ pc = "start"
    /\ ThermoIdle
    /\ input \in [table1 : ParamTables, table2 : ParamTables]
    /\ output = <<>>

\* write_charmm_files is called on a universe whose reader is on any frame
InitCharmm ==
    /\ mode = "charmm"
    /\ trajectory \in Trajectories
    /\ ts \in 1..Len(trajectory)
    /\ analysis = NoAnalysis
    /\ result = <<>>
    /\ NoCommand
    /\ pc = "start"
    /\ ThermoIdle
    /\ input \in [write_traj : BOOLEAN]
    /\ output = <<>>

Init ==
    \/ InitStats
    \/ InitSplittraj
    \/ InitThermo
    \/ InitTableConvert
    \/ InitDiff
    \/ InitCharmm

Next ==
    \/ AverageStructureInit
    \/ BondStatsInit
    \/ Prepare
    \/ SingleFrame
    \/ Conclude
    \/ SplittrajCli
    \/ SplitWorker
    \/ BinaryRemoved
    \/ SplittrajJoin
    \/ ThermoDispatch
    \/ ThermoWorker
    \/ ThermoJoin
    \/ MergeStep
    \/ TableConvertCli
    \/ DiffCli
    \/ WriteTopologyFiles
    \/ Rewind
    \/ WriteFrame
    \/ WriteXplorPsf
    \/ WriteCoordinates

Spec == Init /\ [][Next]_vars

\* The commands that use a process pool, under fair scheduling: the main
\* process keeps running, a worker that can run its next item does run it and
\* the item ends, and pool.join() returns once the workers are done.
PoolInit == InitSplittraj \/ InitThermo

\* a step of the main process or of a pool worker
PoolStep ==
    \/ SplittrajCli
    \/ SplitWorker
    \/ SplittrajJoin
    \/ ThermoDispatch
    \/ ThermoWorker
    \/ ThermoJoin
    \/ MergeStep

PoolNext == PoolStep \/ BinaryRemoved

FairSpec == PoolInit /\ [][PoolNext]_vars /\ WF_vars(PoolStep)

\* --------------------------------------------------------------------------
\* Claims about the trajectory statistics
\* --------------------------------------------------------------------------
\* the values of one coordinate of one atom over the whole trajectory
CoordOverFrames(a, x) == [i \in 1..Len(trajectory) |-> trajectory[i][a][x]]
\* the length of one bond over the whole trajectory
BondOverFrames(b) ==
    [i \in 1..Len(trajectory) |->
        Dist(trajectory[i][Bonds[b][1]], trajectory[i][Bonds[b][2]])]

\* m is the arithmetic mean of xs, to the model's resolution:
\* m / Scale <= sum(xs) / n < (m + 1) / Scale
IsMeanOf(m, xs) ==
    /\ m * Len(xs) <= Scale * SumSeq(xs)
    /\ Scale * SumSeq(xs) < (m + 1) * Len(xs)

\* s is the population standard deviation of xs, to the model's resolution
IsStdOf(s, xs) ==
    LET n == Len(xs)
        v == n * SumSeq([i \in 1..n |-> xs[i] * xs[i]]) - SumSeq(xs) * SumSeq(xs)
    IN  /\ s >= 0
        /\ s * s * n * n <= Scale * Scale * v
        /\ Scale * Scale * v < (s + 1) * (s + 1) * n * n

AverageStructureDone ==
    mode = "stats" /\ analysis.cls = "AverageStructure" /\ analysis.pc = "done"
BondStatsDone ==
    mode = "stats" /\ analysis.cls = "BondStats" /\ analysis.pc = "done"

\* C1: after AverageStructure has run over the trajectory, its result holds
\* for every atom and every axis the arithmetic mean of that atom's position
\* over all frames: one accumulated entry per frame, divided by the number of
\* frames.
C1_AverageIsMean ==
    AverageStructureDone =>
        /\ ts = Len(trajectory)
        /\ \A a \in Atoms : \A x \in Axes :
              IsMeanOf(result[a][x], CoordOverFrames(a, x))

\* a finished AverageStructure over several frames that differ
C1_Witness ==
    /\ AverageStructureDone
    /\ Len(trajectory) >= 2
    /\ \E i, j \in 1..Len(trajectory) : trajectory[i] # trajectory[j]

\* table t of the result lists every bond, in bond order, with columns
\* I, J and r_IJ
IsBondTable(t) ==
    /\ Len(t) = Len(Bonds)
    /\ \A b \in 1..Len(Bonds) :
          /\ DOMAIN t[b] = {"I", "J", "r_IJ"}
          /\ t[b].I = AtomNames[Bonds[b][1]]
          /\ t[b].J = AtomNames[Bonds[b][2]]
\* table t holds the per-bond mean length over all frames
IsMeanTable(t) ==
    /\ IsBondTable(t)
    /\ \A b \in 1..Len(Bonds) : IsMeanOf(t[b].r_IJ, BondOverFrames(b))
\* table t holds the per-bond standard deviation of the length over all frames
IsStdTable(t) ==
    /\ IsBondTable(t)
    /\ \A b \in 1..Len(Bonds) : IsStdOf(t[b].r_IJ, BondOverFrames(b))

\* C2: running BondStats with no func argument yields a result that carries
\* both the per-bond average length and the per-bond fluctuation (standard
\* deviation) over all frames.
C2_DefaultCarriesBoth ==
    (BondStatsDone /\ analysis.arg = NoArg) =>
        /\ \E t \in 1..Len(result) : IsMeanTable(result[t])
        /\ \E t \in 1..Len(result) : IsStdTable(result[t])

\* C3: func selects the statistics: "mean" gives exactly one table, the
\* per-bond mean; "std" exactly one table, the per-bond standard deviation;
\* "both" exactly two tables, the mean first and the standard deviation
\* second. Every table has one row per bond, in bond order, with columns
\* I, J, r_IJ.
C3_FuncSelectsTables ==
    BondStatsDone =>
        /\ ts = Len(trajectory)
        /\ analysis.arg = "mean" =>
              Len(result) = 1 /\ IsMeanTable(result[1])
        /\ analysis.arg = "std" =>
              Len(result) = 1 /\ IsStdTable(result[1])
        /\ analysis.arg = "both" =>
              /\ Len(result) = 2
              /\ IsMeanTable(result[1])
              /\ IsStdTable(result[2])

\* BondStats(func="both") finished over frames in which a bond length varies
C3_Witness ==
    /\ BondStatsDone
    /\ analysis.arg = "both"
    /\ Len(trajectory) >= 2
    /\ result[2][1].r_IJ > 0
    /\ result[1][1].r_IJ # result[1][2].r_IJ

\* C4: constructing BondStats with a func other than "mean", "std" or "both"
\* raises AttributeError at construction, before any frame is read and
\* without producing a result.
C4_BadFuncRaises ==
    (analysis.cls = "BondStats" /\ analysis.arg \notin {NoArg, "mean", "std", "both"}) =>
        /\ analysis.pc = "AttributeError"
        /\ ts = 0
        /\ result = <<>>
        /\ ~ ENABLED Prepare
        /\ ~ ENABLED SingleFrame
        /\ ~ ENABLED Conclude

\* BondStats was constructed with an unknown func
C4_Witness ==
    /\ analysis.cls = "BondStats"
    /\ analysis.arg = "median"
    /\ analysis.pc = "AttributeError"

\* --------------------------------------------------------------------------
\* Claims about the splittraj command
\* --------------------------------------------------------------------------
\* the effects of the call on work item i
EffectsOf(i) == {e \in effects : e.item = i}

\* C5: when the binary of the selected program is not on the path, the
\* operation fails with OSError before any side effect: the splittraj command
\* raises before it creates the pool or dispatches a window, and split_gmx /
\* split_charmm raise before creating the subdirectory, writing a file or
\* launching a command.
C5_MissingBinaryRaisesFirst ==
    /\ [](mode = "splittraj" =>
            /\ pc = "OSError" => (NoPool /\ effects = {})
            /\ \A i \in DOMAIN status :
                  status[i] = "OSError" => EffectsOf(i) = {})
    /\ [][(mode = "splittraj" /\ pc = "start" /\ Binary(args.program) \notin onPath)
             => (pc' = "OSError" /\ NoPool')]_vars
    /\ [][(mode = "splittraj" /\ Binary(args.program) \notin onPath) =>
             \A i \in DOMAIN status :
                (status[i] = "pending" /\ status'[i] \notin {"pending", "skipped"})
                    => (status'[i] = "OSError" /\ effects' = effects)]_vars

\* the command raised OSError for a missing binary
C5_Witness ==
    /\ mode = "splittraj"
    /\ pc = "OSError"
    /\ Binary(args.program) \notin onPath

\* a worker's split call raised OSError for a missing binary after another
\* window had been split
C5_WitnessWorker ==
    /\ mode = "splittraj"
    /\ \E i, j \in DOMAIN status :
          status[i] = "OSError" /\ status[j] = "ok" /\ EffectsOf(j) # {}

\* the windows of a splittraj run have been computed
WindowsComputed == mode = "splittraj" /\ pc \in {"joining", "returned"}

\* C6: every window (first, last) computed by splittraj spans exactly
\* window_size frames and ends at or before the stop frame.
C6_WindowsSpanWindowSize ==
    WindowsComputed =>
        \A k \in DOMAIN items :
            /\ items[k].last - items[k].first + 1 = WindowSize
            /\ items[k].last <= Stop

\* several windows, computed from a start that is not the first frame
C6_Witness ==
    /\ WindowsComputed
    /\ Len(items) >= 3
    /\ Start >= WindowSize
    /\ items[Len(items)].last = Stop

\* C7: -b is the start of the trajectory to split: no window computed by
\* splittraj begins before the requested start frame.
C7_NoWindowBeforeStart ==
    WindowsComputed =>
        \A k \in DOMAIN items : items[k].first >= Start

\* --------------------------------------------------------------------------
\* Claims about the process pool and create_thermo_tables
\* --------------------------------------------------------------------------
\* a command has handed its work items to the pool
Dispatched == mode \in {"splittraj", "thermo"} /\ pool # "none"

\* how many times work item i occurs in the queued tasks
HandedCount(i) ==
    Cardinality({ ck \in { <<c, k>> : c \in DOMAIN chunks, k \in DOMAIN items } :
                    ck[2] \in DOMAIN chunks[ck[1]] /\ chunks[ck[1]][ck[2]] = i })

\* an item before work item i in i's own chunk failed
EarlierInChunkFailed(i) ==
    \E c \in DOMAIN chunks : \E k, l \in DOMAIN chunks[c] :
        /\ chunks[c][k] = i
        /\ l < k
        /\ status[chunks[c][l]] \in Failures

\* C8 as claimed: every work item is handed to the pool exactly once, a work
\* item that fails is never run a second time, and the failure of one work
\* item does not prevent the remaining work items from being run.
C8_FlatMapNoRetry ==
    Dispatched =>
        /\ \A i \in DOMAIN items : HandedCount(i) = 1
        /\ \A i \in DOMAIN items : runs[i] <= 1
        /\ pool = "joined" => \A i \in DOMAIN items : runs[i] = 1

\* C8 as amended: every work item is handed to the pool exactly once, in one
\* chunk of consecutive items; no work item is run a second time; a failure
\* ends its chunk, so the items after it in the same chunk are never run,
\* and every other work item is run.
C8_FlatMapNoRetryPerChunk ==
    Dispatched =>
        /\ \A i \in DOMAIN items : HandedCount(i) = 1
        /\ \A i \in DOMAIN items : runs[i] <= 1
        /\ \A i \in DOMAIN items : status[i] \in Failures => runs[i] = 1
        /\ pool = "joined" =>
              \A i \in DOMAIN items :
                 /\ runs[i] = 0 <=> EarlierInChunkFailed(i)
                 /\ runs[i] = 0 <=> status[i] = "skipped"

\* a pool has been joined in which one item failed, the item after it in its
\* chunk was never run, and an item of a later chunk ran to its end
C8_Witness ==
    /\ Dispatched
    /\ pool = "joined"
    /\ \E i, j, k \in DOMAIN items :
          /\ i < j /\ j < k
          /\ status[i] \in Failures
          /\ status[j] = "skipped"
          /\ status[k] = "ok"

\* the columns of a merged table are in ascending order of their labels
Ascending(table) ==
    \A k \in 1..(Len(table) - 1) : table[k].label < table[k + 1].label

\* table holds, for every listed subdirectory, one column labelled with its
\* window number and holding the named quantity of its result
OneColumnPerSubdir(table, name) ==
    /\ Len(table) = Len(items)
    /\ \A i \in DOMAIN items :
          \E k \in DOMAIN table :
             /\ table[k].label = ParseInt(items[i])
             /\ \A r \in Residues : table[k].col[r] = ThermoData(items[i])[r][name]

UniqueNames(names) ==
    \A i, j \in DOMAIN names : names[i] = names[j] => i = j

\* the atom index of a bead name in the second topology (unique names)
IndexIn(names, name) == CHOOSE i \in DOMAIN names : names[i] = name

\* C11: given unique atom names in the second topology, table_convert replaces
\* every bead name in the I and J columns by the name of the atom at the same
\* atom index in the first topology; the number and order of the rows are
\* unchanged, and each row gains resnI / resnJ, the residue names the first
\* topology gives for (segidI, resI) and (segidJ, resJ).
C11_BeadNamesConverted ==
    (mode = "table_convert" /\ pc # "start" /\ UniqueNames(input.top2)) =>
        /\ pc = "returned"
        /\ Len(output) = 1
        /\ LET rows == input.table
               out == output[1].content
           IN  /\ Len(out) = Len(rows)
               /\ \A i \in DOMAIN rows :
                     /\ out[i].I = input.top1[IndexIn(input.top2, rows[i].I)]
                     /\ out[i].J = input.top1[IndexIn(input.top2, rows[i].J)]
                     /\ out[i].segidI = rows[i].segidI /\ out[i].resI = rows[i].resI
                     /\ out[i].segidJ = rows[i].segidJ /\ out[i].resJ = rows[i].resJ
                     /\ out[i].value = Format4(rows[i].value)
                     /\ \E r \in DOMAIN Top1Residues :
                           Top1Residues[r] = <<rows[i].segidI, rows[i].resI, out[i].resnI>>
                     /\ \E r \in DOMAIN Top1Residues :
                           Top1Residues[r] = <<rows[i].segidJ, rows[i].resJ, out[i].resnJ>>

\* a table of two rows naming different beads and residues was converted
\* with a second topology whose bead order differs from B1, B2, B3
C11_Witness ==
    /\ mode = "table_convert"
    /\ pc = "returned"
    /\ UniqueNames(input.top2)
    /\ input.top2[1] # "B1"
    /\ Len(input.table) = 2
    /\ input.table[1].I # input.table[2].I
    /\ input.table[1].resI # input.table[2].resJ
    /\ output[1].content[1].I # output[1].content[1].J

\* --------------------------------------------------------------------------
\* Claims about diff
\* --------------------------------------------------------------------------
\* the value of frame a at row r, column c, a missing value counted as 0
ValueOrZero(a, r, c) == IF HasCell(a, r, c) THEN a.val[<<r, c>>] ELSE 0

\* d is the difference a - b: every row and column of either frame appears,
\* and where at least one frame has a value the entry is a's value minus b's,
\* a missing one counted as 0, to four decimals
IsDifference(d, a, b) ==
    /\ d.rows = a.rows \cup b.rows
    /\ d.cols = a.cols \cup b.cols
    /\ \A r \in d.rows : \A c \in d.cols :
          (HasCell(a, r, c) \/ HasCell(b, r, c)) =>
              /\ ~ d.val[<<r, c>>].nan
              /\ d.val[<<r, c>>].v =
                    Format4(ValueOrZero(a, r, c) - ValueOrZero(b, r, c))

\* every entry of d is the number 0
AllZero(d) == \A k \in DOMAIN d.val : d.val[k] = Num(0)

\* C12: diff computes table1 minus table2: in the per-residue and the
\* residue-residue difference tables every key of either input appears, with
\* value (value in table1) - (value in table2), a value missing from one table
\* counted as 0; the difference of a table with itself is 0 everywhere.
C12_DiffIsTable1MinusTable2 ==
    (mode = "diff" /\ pc = "returned") =>
        /\ Len(output) = 3
        /\ output[2].name = "dperres.txt"
        /\ output[3].name = "dinteractions.txt"
        /\ IsDifference(output[2].content, PerResidue(input.table1),
                        PerResidue(input.table2))
        /\ IsDifference(output[3].content, Interactions(input.table1),
                        Interactions(input.table2))
        /\ input.table1 = input.table2 =>
              AllZero(output[2].content) /\ AllZero(output[3].content)

\* two tables were compared that each hold a residue the other lacks and
\* differ where both have a value
C12_Witness ==
    /\ mode = "diff"
    /\ pc = "returned"
    /\ input.table1.res = {1, 2}
    /\ input.table2.res = {2, 3}
    /\ input.table1.cols = input.table2.cols
    /\ input.table1.base # input.table2.base
    /\ output[2].content.val[<<3, 1>>].v < 0

\* --------------------------------------------------------------------------
\* Claims about write_charmm_files
\* --------------------------------------------------------------------------
\* how many times a file of this name was written
TimesWritten(name) == Cardinality({ k \in 1..Len(output) : output[k].name = name })

\* the position in output of the only file of this name
PlaceOf(name) == CHOOSE k \in 1..Len(output) : output[k].name = name

CharmmReturned == mode = "charmm" /\ pc = "returned"

\* C13: write_charmm_files writes <prefix>.dcd if and only if write_traj is
\* set; when it does it rewinds first and writes every frame exactly once, in
\* order; the RTF, stream, PSF, XPLOR PSF and coordinate files are written in
\* both cases.
C13_TrajectoryIffWriteTraj ==
    /\ CharmmReturned =>
          /\ TimesWritten(Filenames.traj_file) = IF input.write_traj THEN 1 ELSE 0
          /\ input.write_traj =>
                output[PlaceOf(Filenames.traj_file)].frames =
                    AllPositions(trajectory)
          /\ \A f \in {"topology_file", "stream_file", "psf_file",
                       "xplor_psf_file", "crd_file"} :
                TimesWritten(Filenames[f]) = 1
    /\ (mode = "charmm" /\ ~ input.write_traj) =>
          TimesWritten(Filenames.traj_file) = 0
    /\ (mode = "charmm" /\ pc = "write_traj") =>
          \* the frames written so far are the first ones, the reader is on the next
          output[Len(output)].frames =
              [i \in 1..(ts - 1) |-> Positions(trajectory[i])]

\* a trajectory of several frames was written in full although the reader
\* stood on a later frame at the call
C13_Witness ==
    /\ CharmmReturned
    /\ input.write_traj
    /\ Len(trajectory) = 3
    /\ trajectory[1] # trajectory[2]
    /\ trajectory[2] # trajectory[3]
    /\ Len(output[PlaceOf(Filenames.traj_file)].frames) = 3

\* C14: the coordinate file holds the per-atom average over all frames when
\* the trajectory has more than one frame, and the positions of the single
\* current frame otherwise; in the multi-frame case the PSF file the average
\* structure is built from has already been written in the same call.
C14_CoordinatesAreAverage ==
    /\ CharmmReturned =>
          LET crd == output[PlaceOf(Filenames.crd_file)]
          IN  /\ Len(crd.frames) = 1
              /\ crd.atoms = AtomNames
              /\ \A a \in Atoms : \A x \in Axes :
                    IF Len(trajectory) > 1
                    THEN IsMeanOf(crd.frames[1][a][x], CoordOverFrames(a, x))
                    ELSE crd.frames[1][a][x] = Scale * trajectory[1][a][x]
              /\ Len(trajectory) > 1 =>
                    /\ TimesWritten(Filenames.psf_file) = 1
                    /\ PlaceOf(Filenames.psf_file) < PlaceOf(Filenames.crd_file)
    /\ (mode = "charmm" /\ pc = "crd" /\ Len(trajectory) > 1) =>
          TimesWritten(Filenames.psf_file) = 1
    /\ mode = "charmm" => pc # "IOError"

\* the coordinate file of a trajectory of several differing frames, the
\* reader left on a frame that is not the average
C14_Witness ==
    /\ CharmmReturned
    /\ Len(trajectory) >= 2
    /\ \E i, j \in 1..Len(trajectory) : trajectory[i] # trajectory[j]
    /\ output[PlaceOf(Filenames.crd_file)].frames[1] #
          [a \in Atoms |-> [x \in Axes |-> Scale * trajectory[1][a][x]]]

\* the coordinate file of a single-frame universe
C14_WitnessSingle ==
    /\ CharmmReturned
    /\ Len(trajectory) = 1
    /\ TimesWritten(Filenames.crd_file) = 1

\* --------------------------------------------------------------------------
\* Claims about failures and termination of the pool commands
\* --------------------------------------------------------------------------
\* some subdirectory calculation failed
SomeCalculationFailed == \E i \in DOMAIN status : status[i] \in Failures

\* the merge has started: the loop is entered, or has left a trace
MergeStarted ==
    \/ pc = "merging"
    \/ merged > 0
    \/ \E f \in FileNames : files[f] # NoFile
    \/ <<entropy, enthalpy, heat, gibbs>> # <<<<>>, <<>>, <<>>, <<>>>>

\* C15: in create_thermo_tables merging starts only after every subdirectory
\* calculation has finished; if any of them fails the failure is raised and
\* none of entropy.txt, enthalpy.txt, heat_capacity.txt, gibbs.txt is written
\* or modified.
C15_FailureLeavesNoFiles ==
    mode = "thermo" =>
        /\ MergeStarted =>
              /\ AllTasksDone
              /\ pool = "joined"
              /\ \A i \in DOMAIN items : status[i] = "ok" /\ results[i] # <<>>
        /\ SomeCalculationFailed =>
              /\ pc \in {"joining", "raised"}
              /\ ~ MergeStarted
              /\ \A f \in FileNames : files[f] = NoFile
        /\ (SomeCalculationFailed /\ pool = "joined") => pc = "raised"
        /\ pc = "raised" => SomeCalculationFailed

\* a failure was raised although other subdirectories had been calculated
C15_Witness ==
    /\ mode = "thermo"
    /\ pc = "raised"
    /\ \E i, j \in DOMAIN items : status[i] = "ok" /\ status[j] \in Failures

\* the splittraj command has dispatched its windows
SplittrajDispatched == mode = "splittraj" /\ pool # "none"

\* C16 as claimed: in splittraj a failure inside a worker is never reported
\* to the caller: the command still returns normally once all windows have
\* been attempted.
C16_FailureNeverReported ==
    SplittrajDispatched =>
        /\ pc \in {"joining", "returned"}
        /\ (pc = "joining" /\ AllTasksDone) => ENABLED SplittrajJoin
        /\ pc = "returned" => \A i \in DOMAIN items : runs[i] >= 1

\* C16 as amended: in splittraj a failure inside a worker is never reported
\* to the caller: the command still returns normally once every chunk of
\* windows has been run to its end or to its first failure; the windows after
\* a failed one in its chunk are never attempted.
C16_FailureNeverReportedPerChunk ==
    SplittrajDispatched =>
        /\ pc \in {"joining", "returned"}
        /\ (pc = "joining" /\ AllTasksDone) => ENABLED SplittrajJoin
        /\ pc = "returned" =>
              /\ AllTasksDone
              /\ \A i \in DOMAIN items :
                    \/ runs[i] = 1 /\ status[i] \in {"ok"} \cup Failures
                    \/ runs[i] = 0 /\ status[i] = "skipped" /\ EarlierInChunkFailed(i)

\* splittraj has returned normally although the split command failed for a
\* window, and a window was never attempted
C16_Witness ==
    /\ SplittrajDispatched
    /\ pc = "returned"
    /\ \E i \in DOMAIN items : status[i] = "CalledProcessError"
    /\ \E i \in DOMAIN items : runs[i] = 0

\* the command is back with its caller, normally or with an exception
BackWithCaller == pc \in {"returned", "raised", "OSError"}

\* C17 as claimed: splittraj and create_thermo_tables return to their caller
\* only after every work item they dispatched to the pool has finished
\* (succeeded or failed); under fair scheduling of workers that each
\* terminate, the command eventually returns.
C17_ReturnsAfterAllWork ==
    /\ []((Dispatched /\ (pool = "joined" \/ BackWithCaller)) =>
             /\ AllTasksDone
             /\ \A i \in DOMAIN items : status[i] \in {"ok"} \cup Failures)
    /\ (mode \in {"splittraj", "thermo"}) ~> BackWithCaller

\* C17 as amended: splittraj and create_thermo_tables return to their caller
\* only after every task they dispatched to the pool has ended: every work
\* item has succeeded, failed, or was dropped with its chunk when an earlier
\* item of the chunk failed, and none is running or waiting; under fair
\* scheduling of workers that each terminate, the command eventually returns.
C17_ReturnsAfterAllTasks ==
    /\ []((Dispatched /\ (pool = "joined" \/ BackWithCaller)) =>
             /\ AllTasksDone
             /\ pool = "joined"
             /\ \A i \in DOMAIN items :
                   \/ status[i] \in {"ok"} \cup Failures
                   \/ status[i] = "skipped" /\ EarlierInChunkFailed(i))
    /\ (mode \in {"splittraj", "thermo"}) ~> BackWithCaller

\* splittraj is back with its caller after one of its windows succeeded and
\* one was dropped with its chunk
C17_Witness ==
    /\ Dispatched
    /\ BackWithCaller
    /\ mode = "splittraj"
    /\ \E i, j \in DOMAIN items : status[i] = "ok" /\ status[j] = "skipped"

\* --------------------------------------------------------------------------
\* Claims about split_gmx
\* --------------------------------------------------------------------------
\* the command without an index, as split_gmx documents and builds it:
\* gmx trjconv -s topology -f trajectory -o subdir/outfile -b start -e stop
WithoutIndex(info) ==
    << "gmx", "trjconv", "-s", "md.tpr", "-f", "md.xtc",
       "-o", InSubdir(info, "aa.xtc"),
       "-b", ToString(info.first), "-e", ToString(info.last) >>

\* argv without the pair of arguments "-n", <file>
DropIndexArgs(argv) ==
    IF \E k \in 1..(Len(argv) - 1) : argv[k] = "-n"
    THEN LET k == CHOOSE j \in 1..(Len(argv) - 1) : argv[j] = "-n"
         IN  SubSeq(argv, 1, k - 1) \o SubSeq(argv, k + 2, Len(argv))
    ELSE argv

\* the commands split_gmx has launched
GmxLaunched == { e \in effects : e.kind = "exec" /\ e.what = "gmx" }

====
